---- MODULE Spec2Model ----
(***************************************************************************)
(* Model of sample-python-scripts/bag_validate_upload_linux.py: the job    *)
(* loop that shells out to `apt-cmd bag create`, `apt-cmd bag validate`    *)
(* and `apt-cmd s3 upload` for every entry of the jobs list and prints a   *)
(* status line after each call.                                            *)
(*                                                                         *)
(* Strings are sequences of atoms.  A literal of the script is one atom    *)
(* (<<" --profile=">>), string concatenation is \o, and a path is the      *)
(* sequence of its '/' characters and of the name pieces between them, so  *)
(* that find('/'), reversal and slicing act on it as they do in Python.    *)
(***************************************************************************)
EXTENDS Integers, Sequences, FiniteSets

VARIABLES jobs,      \* the jobs list (lines 29-33), never mutated
          idx,       \* position of the `for bag in jobs` iterator (1-based)
          pc,        \* where the script is: "loop", "create", "validate", "upload", "done"
          bag_name,  \* the loop variable bag_name (line 51)
          running,   \* child processes started and not yet waited for
          calls,     \* every subprocess.run issued so far, in order
          returned,  \* every subprocess.run that has returned, with its exit code
          stdout     \* the lines printed so far, in order

vars == <<jobs, idx, pc, bag_name, running, calls, returned, stdout>>

----------------------------------------------------------------------------
(* Bounds *)

MaxJobs == 2
MaxLen == 4

----------------------------------------------------------------------------
(* Python string primitives *)

\* s[::-1]
Reverse(s) == [i \in 1..Len(s) |-> s[Len(s) + 1 - i]]

\* s.find(c): the 0-based index of the first occurrence, -1 when there is none
Find(s, c) ==
    IF \E i \in 1..Len(s) : s[i] = c
    THEN (CHOOSE i \in 1..Len(s) : s[i] = c /\ \A j \in 1..(i - 1) : s[j] # c) - 1
    ELSE -1

\* s[start::] with Python's treatment of negative and out-of-range starts
SliceFrom(s, start) ==
    LET n == Len(s)
        a == IF start < 0 THEN start + n ELSE start
        b == IF a < 0 THEN 0 ELSE IF a > n THEN n ELSE a
    IN  SubSeq(s, b + 1, n)

----------------------------------------------------------------------------
(* Configuration block, lines 8-27 *)

bucket_name == <<"aptrust.receiving.test.acr7d.edu">>
output_dir == <<"/", "home", "/", "emory", "/", "aptrust", "/", "testing_files", "/", "testing_output">>
profile == <<"aptrust">>
manifest_algs_value == <<"md5,sha256">>
source_organization_value == <<"College">>
storage_option_value == <<"Standard">>

(* Derived flag strings, lines 37-41 *)

profile_full == <<" --profile=">> \o profile
manifest_algs == <<" --manifest-algs=">> \o manifest_algs_value
source_organization ==
    <<" --tags='bag-info.txt/Source-Organization=">> \o source_organization_value \o <<"'">>
output_file == <<" --output-file=">> \o output_dir \o <<"/">>
storage_option ==
    <<" --tags='aptrust-info.txt/Storage-Option=">> \o storage_option_value \o <<"'">>

----------------------------------------------------------------------------
(* Loop body, pure parts *)

\* line 50
IndexSlash(source_dir) == Find(Reverse(source_dir), "/")

\* line 51
BagName(source_dir) == SliceFrom(source_dir, 0 - IndexSlash(source_dir))

\* lines 47-49
Title(bag) == <<" --tags='aptrust-info.txt/Title=">> \o bag.title \o <<"'">>
Access(bag) == <<" --tags='aptrust-info.txt/Access=">> \o bag.access \o <<"'">>
BagDir(bag) == <<" --bag-dir=">> \o bag.source_dir

\* line 53 with the title flag written where the access flag belongs
CreateCommandTitleTwice(bag, name) ==
    <<"apt-cmd bag create">> \o profile_full \o manifest_algs \o output_file \o name
        \o <<".tar">> \o BagDir(bag) \o source_organization \o Title(bag) \o Title(bag)
        \o storage_option

\* line 53
CreateCommand(bag, name) ==
    <<"apt-cmd bag create">> \o profile_full \o manifest_algs \o output_file \o name
        \o <<".tar">> \o BagDir(bag) \o source_organization \o Title(bag) \o Access(bag)
        \o storage_option

\* line 60
ValidateCommand(name) ==
    <<"apt-cmd bag validate -p ">> \o profile \o <<" ">> \o output_dir \o <<"/">> \o name
        \o <<".tar">>

\* line 68
UploadCommand(name) ==
    <<"apt-cmd s3 upload --host=s3.amazonaws.com --bucket=\"">> \o bucket_name \o <<"\" ">>
        \o output_dir \o <<"/">> \o name \o <<".tar">>

\* print("<message>: {}".format(bag_name))
Line(message, name) == <<message>> \o name

\* lines 55-58 with the exit code of create ignored
CreateLinesAlwaysBagged(rc, name) == <<Line("Bagged: ", name)>>

\* lines 55-58
CreateLines(rc, name) ==
    IF rc # 0 THEN <<Line("ERROR CREATING: ", name)>> ELSE <<Line("Bagged: ", name)>>

\* lines 62-66: the line printed after validation
ValidateLines(rc, name) ==
    IF rc # 0 THEN <<Line("ERROR VALIDATING: ", name)>> ELSE <<Line("Validated: ", name)>>

\* lines 62-64 without the `continue`
SkipsUploadNever(createRc, validateRc) == FALSE

\* lines 62-64 with a failed create skipping the upload as well
SkipsUploadOnAnyFailure(createRc, validateRc) == createRc # 0 \/ validateRc # 0

\* lines 62-64: whether the rest of the iteration is skipped
SkipsUpload(createRc, validateRc) == validateRc # 0

\* line 64 with `break` in place of `continue`
ContinueAtBreak(i, n) == n + 1

\* line 64: `continue` resumes the loop at the next job
ContinueAt(i, n) == i + 1

\* lines 70-75 with the final line printed only after a successful upload
UploadLinesFinalOnSuccess(rc, name) ==
    IF rc # 0
    THEN <<Line("ERROR UPLOADING: ", name)>>
    ELSE <<Line("Uploaded: ", name), Line("Bagged, Validated, Uploaded: ", name)>>

\* lines 70-75 without the final line
UploadLinesNoFinal(rc, name) ==
    IF rc # 0 THEN <<Line("ERROR UPLOADING: ", name)>> ELSE <<Line("Uploaded: ", name)>>

\* lines 70-75
UploadLines(rc, name) ==
    (IF rc # 0 THEN <<Line("ERROR UPLOADING: ", name)>> ELSE <<Line("Uploaded: ", name)>>)
        \o <<Line("Bagged, Validated, Uploaded: ", name)>>

\* a child that is started and not waited for
ReapedNoWait(children, child) == children

\* subprocess.run blocks until the child has exited
Reaped(children, child) == children \ {child}

----------------------------------------------------------------------------
(* Inputs *)

\* exit codes of the external commands: success and failure
ExitCodes == {0, 1}

PathAtoms == {"/", "a", "b"}

RECURSIVE SeqsUpTo(_, _)
SeqsUpTo(S, n) ==
    IF n = 0 THEN {<< >>}
    ELSE LET shorter == SeqsUpTo(S, n - 1)
         IN  shorter \cup {Append(s, x) : s \in {t \in shorter : Len(t) = n - 1}, x \in S}

\* every non-empty path of at most MaxLen atoms
Paths == SeqsUpTo(PathAtoms, MaxLen) \ {<< >>}

\* the three jobs of the script (lines 30-32)
ScriptJobs ==
    << [source_dir |-> <<"/", "home", "/", "emory", "/", "aptrust", "/", "testing_files", "/",
                         "testing_input", "/", "test_bag_1">>,
        title |-> <<"Bag 1">>, access |-> <<"Institution">>],
       [source_dir |-> <<"/", "home", "/", "emory", "/", "aptrust", "/", "testing_files", "/",
                         "testing_input", "/", "test_bag_2">>,
        title |-> <<"Bag 2">>, access |-> <<"Consortia">>],
       [source_dir |-> <<"/", "home", "/", "emory", "/", "aptrust", "/", "testing_files", "/",
                         "testing_input", "/", "test_bag_3">>,
        title |-> <<"Bag 2">>, access |-> <<"Consortia">>] >>

\* jobs of the script and jobs whose path has no '/' or ends in '/'
JobPool ==
    {ScriptJobs[2], ScriptJobs[3],
     [source_dir |-> <<"a", "b">>, title |-> <<"Bag 1">>, access |-> <<"Consortia">>],
     [source_dir |-> <<"/", "b">>, title |-> <<"Bag 3">>, access |-> <<"Institution">>],
     [source_dir |-> <<"b", "/">>, title |-> <<"Bag 4">>, access |-> <<"Restricted">>]}

\* the script's own list, and every list of at most MaxJobs jobs of the pool
JobLists == {ScriptJobs} \cup UNION {[1..n -> JobPool] : n \in 0..MaxJobs}

\* one job whose source_dir ranges over every bounded path
PathJobLists ==
    {<<[source_dir |-> p, title |-> <<"Bag 1">>, access |-> <<"Institution">>]>> : p \in Paths}

----------------------------------------------------------------------------
(* The script *)

Start ==
    /\ idx = 1
    /\ pc = "loop"
    /\ bag_name = <<"<unbound>">>
    /\ running = {}
    /\ calls = << >>
    /\ returned = << >>
    /\ stdout = << >>

Init == jobs \in JobLists /\ Start

InitPaths == jobs \in PathJobLists /\ Start

Call(step, cmd) == [job |-> idx, step |-> step, cmd |-> cmd]
Printed(lines) == [k \in 1..Len(lines) |-> [job |-> idx, text |-> lines[k]]]

\* lines 46-54: bind the loop variables, build the create command and start it
BeginJob ==
    /\ pc = "loop"
    /\ idx <= Len(jobs)
    /\ LET bag == jobs[idx]
           name == BagName(bag.source_dir)
           call == Call("create", CreateCommand(bag, name))
       IN  /\ bag_name' = name
           /\ calls' = Append(calls, call)
           /\ running' = running \cup {call}
    /\ pc' = "create"
    /\ UNCHANGED <<jobs, idx, returned, stdout>>

\* lines 54-61: create returns, its line is printed, validate is started
CreateReturns ==
    /\ pc = "create"
    /\ \E rc \in ExitCodes :
          LET done == calls[Len(calls)]
              call == Call("validate", ValidateCommand(bag_name))
          IN  /\ returned' = Append(returned, [job |-> idx, step |-> "create", rc |-> rc])
              /\ stdout' = stdout \o Printed(CreateLines(rc, bag_name))
              /\ calls' = Append(calls, call)
              /\ running' = Reaped(running, done) \cup {call}
    /\ pc' = "validate"
    /\ UNCHANGED <<jobs, idx, bag_name>>

CreateRc(i) ==
    LET k == CHOOSE k \in 1..Len(returned) : returned[k].job = i /\ returned[k].step = "create"
    IN  returned[k].rc

\* lines 61-69: validate returns; on failure `continue`, otherwise upload is started
ValidateReturns ==
    /\ pc = "validate"
    /\ \E rc \in ExitCodes :
          LET done == calls[Len(calls)]
              call == Call("upload", UploadCommand(bag_name))
          IN  /\ returned' = Append(returned, [job |-> idx, step |-> "validate", rc |-> rc])
              /\ stdout' = stdout \o Printed(ValidateLines(rc, bag_name))
              /\ IF SkipsUpload(CreateRc(idx), rc)
                 THEN /\ running' = Reaped(running, done)
                      /\ idx' = ContinueAt(idx, Len(jobs))
                      /\ pc' = "loop"
                      /\ UNCHANGED calls
                 ELSE /\ calls' = Append(calls, call)
                      /\ running' = Reaped(running, done) \cup {call}
                      /\ pc' = "upload"
                      /\ UNCHANGED idx
    /\ UNCHANGED <<jobs, bag_name>>

\* lines 69-75: upload returns, its line and the final line are printed
UploadReturns ==
    /\ pc = "upload"
    /\ \E rc \in ExitCodes :
          LET done == calls[Len(calls)]
          IN  /\ returned' = Append(returned, [job |-> idx, step |-> "upload", rc |-> rc])
              /\ stdout' = stdout \o Printed(UploadLines(rc, bag_name))
              /\ running' = Reaped(running, done)
    /\ idx' = idx + 1
    /\ pc' = "loop"
    /\ UNCHANGED <<jobs, bag_name, calls>>

\* line 46: the iterator is exhausted and the script ends
Finish ==
    /\ pc = "loop"
    /\ idx > Len(jobs)
    /\ pc' = "done"
    /\ UNCHANGED <<jobs, idx, bag_name, running, calls, returned, stdout>>

Next == BeginJob \/ CreateReturns \/ ValidateReturns \/ UploadReturns \/ Finish

Spec == Init /\ [][Next]_vars

\* the same script run on one job with an arbitrary bounded path
SpecPaths == InitPaths /\ [][Next]_vars

\* the interpreter runs the next statement whenever there is one, and every
\* external command is taken to return an exit code
FairSpec == Init /\ [][Next]_vars /\ WF_vars(Next)

----------------------------------------------------------------------------
(* Vocabulary of the properties *)

JobIds == 1..Len(jobs)

\* the bag name the script derives for job i
NameOf(i) == BagName(jobs[i].source_dir)

\* the substring after the last '/', the whole string when there is no '/'
LastSegment(s) ==
    LET slashes == {i \in 1..Len(s) : s[i] = "/"}
    IN  IF slashes = {} THEN s
        ELSE SubSeq(s, (CHOOSE i \in slashes : \A j \in slashes : j <= i) + 1, Len(s))

\* the texts printed during job i, in order
TextsOf(i) ==
    LET ls == SelectSeq(stdout, LAMBDA l : l.job = i)
    IN  [k \in 1..Len(ls) |-> ls[k].text]

HasLine(i, message) ==
    \E k \in 1..Len(stdout) : stdout[k].job = i /\ stdout[k].text = <<message>> \o NameOf(i)

HasMessage(i, message) ==
    \E k \in 1..Len(stdout) : stdout[k].job = i /\ Head(stdout[k].text) = message

CallsOf(i) == {k \in 1..Len(calls) : calls[k].job = i}
IssuedAt(i, step) == {k \in 1..Len(calls) : calls[k].job = i /\ calls[k].step = step}
Issued(i, step) == IssuedAt(i, step) # {}

HasReturned(i, step) ==
    \E k \in 1..Len(returned) : returned[k].job = i /\ returned[k].step = step
Rc(i, step) ==
    LET k == CHOOSE k \in 1..Len(returned) : returned[k].job = i /\ returned[k].step = step
    IN  returned[k].rc

\* the iteration for job i is over
JobOver(i) == idx > i

StepNo(step) == CASE step = "create" -> 1 [] step = "validate" -> 2 [] step = "upload" -> 3

(* A command seen as its sequence of flags: a flag begins at one of the flag
   literals and its value runs to the next flag literal or to the end. *)

FlagHeads ==
    {" --profile=", " --manifest-algs=", " --output-file=", " --bag-dir=",
     " --tags='bag-info.txt/Source-Organization=", " --tags='aptrust-info.txt/Title=",
     " --tags='aptrust-info.txt/Access=", " --tags='aptrust-info.txt/Storage-Option="}

FlagPositions(cmd, head) == {p \in 1..Len(cmd) : cmd[p] = head}

FlagValueAt(cmd, p) ==
    LET later == {q \in (p + 1)..Len(cmd) : cmd[q] \in FlagHeads}
        end == IF later = {} THEN Len(cmd) + 1
               ELSE CHOOSE q \in later : \A r \in later : q <= r
    IN  SubSeq(cmd, p + 1, end - 1)

FlagValues(cmd, head) == {FlagValueAt(cmd, p) : p \in FlagPositions(cmd, head)}

\* exactly one flag `head` and its value is `value`
HasOneFlag(cmd, head, value) ==
    /\ Cardinality(FlagPositions(cmd, head)) = 1
    /\ FlagValues(cmd, head) = {value}

\* exactly one tag flag `head` and it reads '<file>/<key>=<value>'
HasOneTag(cmd, head, value) == HasOneFlag(cmd, head, value \o <<"'">>)

\* the bag file a call names
FileOf(call) ==
    IF call.step = "create"
    THEN FlagValueAt(call.cmd, CHOOSE p \in 1..Len(call.cmd) : call.cmd[p] = " --output-file=")
    ELSE SubSeq(call.cmd, 4, Len(call.cmd))

BagFile(name) == output_dir \o <<"/">> \o name \o <<".tar">>

----------------------------------------------------------------------------
(* Properties *)

\* C1: a job whose `bag validate` returns non-zero gets an "ERROR VALIDATING: <bag_name>"
\* line, no `s3 upload` is ever issued for it, none of "Uploaded", "ERROR UPLOADING" and the
\* final "Bagged, Validated, Uploaded" lines is printed for it, and the loop goes on with the
\* next job: at the end of the script the following job has had its `bag create`.
C1_FailedValidateSkipsUploadOnly ==
    \A i \in JobIds :
        (HasReturned(i, "validate") /\ Rc(i, "validate") # 0) =>
            /\ HasLine(i, "ERROR VALIDATING: ")
            /\ ~Issued(i, "upload")
            /\ ~HasMessage(i, "Uploaded: ")
            /\ ~HasMessage(i, "ERROR UPLOADING: ")
            /\ ~HasMessage(i, "Bagged, Validated, Uploaded: ")
            /\ JobOver(i)
            /\ (pc = "done" /\ i < Len(jobs)) => Issued(i + 1, "create")

C1_Witness ==
    /\ pc = "done"
    /\ \E i \in JobIds :
          /\ i < Len(jobs)
          /\ HasReturned(i, "validate") /\ Rc(i, "validate") # 0
          /\ HasLine(i, "ERROR VALIDATING: ")
          /\ HasReturned(i + 1, "validate")

AtMostOncePerJob ==
    \A i \in JobIds :
        /\ Cardinality(IssuedAt(i, "create")) <= 1
        /\ Cardinality(IssuedAt(i, "validate")) <= 1

Completed ==
    /\ pc = "done"
    /\ idx = Len(jobs) + 1
    /\ running = {}
    /\ \A i \in JobIds :
          /\ Cardinality(IssuedAt(i, "create")) = 1
          /\ Cardinality(IssuedAt(i, "validate")) = 1
          /\ HasReturned(i, "create") /\ HasReturned(i, "validate")

\* C2: whatever the exit codes, the script eventually ends, having visited every job of the
\* list, with `bag create` and `bag validate` issued exactly once for every job; at no time
\* is either issued twice for a job.
C2_RunsToCompletion == [](AtMostOncePerJob) /\ <>(Completed)

C2_Witness ==
    /\ Completed
    /\ Len(jobs) >= 2
    /\ \A i \in JobIds : Rc(i, "create") # 0 /\ Rc(i, "validate") # 0

\* C3: a job whose `bag create` returns non-zero gets an "ERROR CREATING: <bag_name>" line
\* and no "Bagged: <bag_name>" line, and its `bag validate` is issued all the same, after
\* the create.
C3_FailedCreateStillValidates ==
    \A i \in JobIds :
        (HasReturned(i, "create") /\ Rc(i, "create") # 0) =>
            /\ HasLine(i, "ERROR CREATING: ")
            /\ ~HasMessage(i, "Bagged: ")
            /\ \E v \in IssuedAt(i, "validate") : \A c \in IssuedAt(i, "create") : c < v

C3_Witness ==
    \E i \in JobIds :
        /\ HasReturned(i, "create") /\ Rc(i, "create") # 0
        /\ HasLine(i, "ERROR CREATING: ")
        /\ HasReturned(i, "validate")

\* C4: a finished job whose create and validate both returned zero has printed, in this
\* order, "Bagged", "Validated", then "Uploaded" when upload returned zero and
\* "ERROR UPLOADING" when it did not, then the final "Bagged, Validated, Uploaded" line.
C4_FinalLineWhateverUpload ==
    \A i \in JobIds :
        (JobOver(i) /\ Rc(i, "create") = 0 /\ Rc(i, "validate") = 0) =>
            /\ HasReturned(i, "upload")
            /\ TextsOf(i) =
                   << <<"Bagged: ">> \o NameOf(i),
                      <<"Validated: ">> \o NameOf(i),
                      <<(IF Rc(i, "upload") # 0 THEN "ERROR UPLOADING: " ELSE "Uploaded: ")>>
                          \o NameOf(i),
                      <<"Bagged, Validated, Uploaded: ">> \o NameOf(i) >>

C4_Witness ==
    \E i \in JobIds :
        /\ JobOver(i) /\ Rc(i, "create") = 0 /\ Rc(i, "validate") = 0
        /\ Rc(i, "upload") # 0
        /\ HasLine(i, "ERROR UPLOADING: ")
        /\ HasLine(i, "Bagged, Validated, Uploaded: ")

\* C5: once bag_name is bound for a job, it is the last path segment of the job's
\* source_dir, the substring after the last '/'.
C5_BagNameIsLastSegment ==
    (pc \in {"create", "validate", "upload"}) => bag_name = LastSegment(jobs[idx].source_dir)

CreateFlagsOwn(cmd, bag) ==
    /\ HasOneFlag(cmd, " --bag-dir=", bag.source_dir)
    /\ HasOneTag(cmd, " --tags='bag-info.txt/Source-Organization=", source_organization_value)
    /\ HasOneTag(cmd, " --tags='aptrust-info.txt/Title=", bag.title)
    /\ HasOneTag(cmd, " --tags='aptrust-info.txt/Access=", bag.access)
    /\ HasOneTag(cmd, " --tags='aptrust-info.txt/Storage-Option=", storage_option_value)

\* the job values a create command carries
CarriedDirs(cmd) == FlagValues(cmd, " --bag-dir=")
CarriedTitles(cmd) == FlagValues(cmd, " --tags='aptrust-info.txt/Title=")
CarriedAccesses(cmd) == FlagValues(cmd, " --tags='aptrust-info.txt/Access=")

\* C6 as stated: every create command has exactly one --bag-dir with the job's source_dir and
\* exactly one tag flag each for Source-Organization, Title, Access and Storage-Option with
\* the configured and the job's values, and no value of another job appears in it.
C6_Original ==
    \A k \in 1..Len(calls) :
        calls[k].step = "create" =>
            LET cmd == calls[k].cmd
                i == calls[k].job
            IN  /\ CreateFlagsOwn(cmd, jobs[i])
                /\ \A j \in JobIds \ {i} :
                      /\ jobs[j].source_dir \notin CarriedDirs(cmd)
                      /\ jobs[j].title \o <<"'">> \notin CarriedTitles(cmd)
                      /\ jobs[j].access \o <<"'">> \notin CarriedAccesses(cmd)

\* C6 amended: every create command has exactly one --bag-dir with the job's source_dir and
\* exactly one tag flag each for Source-Organization, Title, Access and Storage-Option with
\* the configured and the job's values; a value of another job appears in it only where that
\* job has the same value for the same field.
C6_CreateCommandCarriesOwnValues ==
    \A k \in 1..Len(calls) :
        calls[k].step = "create" =>
            LET cmd == calls[k].cmd
                i == calls[k].job
            IN  /\ CreateFlagsOwn(cmd, jobs[i])
                /\ \A j \in JobIds \ {i} :
                      /\ jobs[j].source_dir \in CarriedDirs(cmd)
                            => jobs[j].source_dir = jobs[i].source_dir
                      /\ jobs[j].title \o <<"'">> \in CarriedTitles(cmd)
                            => jobs[j].title = jobs[i].title
                      /\ jobs[j].access \o <<"'">> \in CarriedAccesses(cmd)
                            => jobs[j].access = jobs[i].access

C6_Witness ==
    /\ Len(jobs) >= 2
    /\ Issued(2, "create")
    /\ jobs[1].title # jobs[2].title
    /\ jobs[1].access # jobs[2].access
    /\ jobs[1].source_dir # jobs[2].source_dir
    /\ \E k \in IssuedAt(2, "create") : CreateFlagsOwn(calls[k].cmd, jobs[2])

\* C7: at most one external command is in flight, and it is the last one issued; every
\* earlier command has returned, in the order of issue; commands are issued job by job in list
\* order and, within a job, in the order create, validate, upload.
C7_Sequential ==
    /\ Cardinality(running) <= 1
    /\ running \subseteq {calls[k] : k \in {Len(calls)} \ {0}}
    /\ Len(returned) + Cardinality(running) = Len(calls)
    /\ \A k \in 1..Len(returned) :
          returned[k].job = calls[k].job /\ returned[k].step = calls[k].step
    /\ \A k \in 1..Len(calls) : \A m \in (k + 1)..Len(calls) :
          \/ calls[k].job < calls[m].job
          \/ calls[k].job = calls[m].job /\ StepNo(calls[k].step) < StepNo(calls[m].step)
    /\ \A k \in 1..Len(calls) :
          StepNo(calls[k].step) > 1 =>
              /\ k > 1
              /\ calls[k - 1].job = calls[k].job
              /\ StepNo(calls[k - 1].step) = StepNo(calls[k].step) - 1

C7_Witness ==
    /\ Len(calls) >= 5
    /\ Len(returned) = Len(calls) - 1
    /\ running = {calls[Len(calls)]}
    /\ calls[Len(calls)].job = 2
    /\ calls[Len(calls)].step = "upload"

\* the six messages of a step
StepMessages ==
    {"Bagged: ", "ERROR CREATING: ", "Validated: ", "ERROR VALIDATING: ",
     "Uploaded: ", "ERROR UPLOADING: "}

\* the seven messages the script can print
StatusMessages == StepMessages \cup {"Bagged, Validated, Uploaded: "}

\* C8 as stated: a finished job has printed as many lines as steps were run for it, and
\* every printed line is one of the six step messages.
C8_Original ==
    \A i \in JobIds :
        JobOver(i) =>
            /\ Len(TextsOf(i)) = Cardinality(CallsOf(i))
            /\ \A k \in 1..Len(TextsOf(i)) : Head(TextsOf(i)[k]) \in StepMessages

\* C8 amended: a finished job has printed one line per step run for it, plus the final
\* "Bagged, Validated, Uploaded" line when its validate returned zero; every printed line
\* is one of seven fixed messages followed by the bag name.
C8_LinePerStepPlusFinal ==
    /\ Cardinality(StatusMessages) = 7
    /\ \A i \in JobIds :
          JobOver(i) =>
              /\ Len(TextsOf(i)) =
                     Cardinality(CallsOf(i)) + (IF Rc(i, "validate") = 0 THEN 1 ELSE 0)
              /\ \A k \in 1..Len(TextsOf(i)) :
                    /\ Head(TextsOf(i)[k]) \in StatusMessages
                    /\ Tail(TextsOf(i)[k]) = NameOf(i)

C8_Witness ==
    \E i \in JobIds :
        /\ JobOver(i)
        /\ Cardinality(CallsOf(i)) = 3
        /\ Len(TextsOf(i)) = 4
        /\ \E j \in JobIds : JobOver(j) /\ Cardinality(CallsOf(j)) = 2 /\ Len(TextsOf(j)) = 2

\* C9: the three commands of a job name the same bag file, output_dir/<bag_name>.tar; two jobs
\* whose source_dir have the same last path segment name the same file, and two jobs whose
\* last segments differ name different files.
C9_OneBagFilePerLastSegment ==
    /\ \A k \in 1..Len(calls) : FileOf(calls[k]) = BagFile(NameOf(calls[k].job))
    /\ \A k \in 1..Len(calls) : \A m \in 1..Len(calls) :
          LET same == LastSegment(jobs[calls[k].job].source_dir)
                          = LastSegment(jobs[calls[m].job].source_dir)
          IN  same <=> (FileOf(calls[k]) = FileOf(calls[m]))

\* C10: for a finished job, `s3 upload` has been issued if and only if its validate returned
\* zero, and the final "Bagged, Validated, Uploaded: <bag_name>" line has been printed if and
\* only if its validate returned zero, whatever its create returned.
C10_UploadIffValidated ==
    \A i \in JobIds :
        JobOver(i) =>
            /\ Issued(i, "upload") <=> (Rc(i, "validate") = 0)
            /\ HasLine(i, "Bagged, Validated, Uploaded: ") <=> (Rc(i, "validate") = 0)

C10_Witness ==
    \E i \in JobIds :
        /\ JobOver(i)
        /\ Rc(i, "create") # 0
        /\ Rc(i, "validate") = 0
        /\ Issued(i, "upload")
        /\ HasLine(i, "Bagged, Validated, Uploaded: ")

====
